---- MODULE Spec2Model ----
(***************************************************************************)
(* The DebugRedirect component (src/unnamed/part_000): the Parameter       *)
(* Reader effect, the processDebugInfo synthesis pass with its two awaits   *)
(* (fetch at line 62 and, after a 2xx status, response.json() at line 69), *)
(* the copy action and the render function.                                *)
(*                                                                         *)
(* JavaScript values are modelled as follows.  Strings are TLA+ strings.   *)
(* undefined is the string Undefined; the booleans that can flow out of a  *)
(* JSON body are the strings "true" and "false" (no input string of the    *)
(* model is spelled like one of these three).  Objects are functions from  *)
(* their keys to their values; null, where an object may stand, is JSNull. *)
(* An object whose key order is observable (searchParams, a URL's query)   *)
(* is a sequence of <<key, value>> entries with pairwise distinct keys for *)
(* searchParams and possibly repeated keys for a URL's query.              *)
(***************************************************************************)
EXTENDS Naturals, Sequences, FiniteSets, TLC

VARIABLES
    location,      \* window.location.search, as its sequence of <<key, value>> pairs
    mounted,       \* the mount effects have run
    effectPending, \* searchParams changed: the [searchParams] effect is due
    searchParams,  \* useState: the ParameterMap (ordered entries)
    debugInfo,     \* useState: DebugInfo, or JSNull
    isLoading,     \* useState
    copied,        \* useState
    timers,        \* number of armed setTimeout callbacks of copyToClipboard
    inflight,      \* suspended passes: set of [id, params, at], at = "fetch" for
                   \* the await of line 62 and "json" for the await of line 69
    passCount,     \* number of processDebugInfo invocations so far
    uuidCount,     \* number of crypto.randomUUID() calls so far
    now,           \* the clock read by new Date()
    url,           \* the URL object of the last pass at line 93 (NoUrl if none)
    response,      \* how the fetch of the last finished pass settled (NoResponse if none)
    crashed,       \* a render threw: React has unmounted the component
    log,           \* the state-setter and fetch calls made so far, in order
    commits        \* the setDebugInfo calls so far: [pass, params, resp, info, url]

vars == <<location, mounted, effectPending, searchParams, debugInfo, isLoading,
          copied, timers, inflight, passCount, uuidCount, now, url, response,
          crashed, log, commits>>

(***************************** bounds **************************************)
MaxExtras == 2
MaxClock == 1
MaxTimers == 2
\* the most calls of setSearchParams after the one of the mount
MaxChanges == 1
\* the most pairs of a query string with repeated keys
MaxPairs == 2

(************************** JavaScript values ******************************)
Undefined == "undefined"
JSNull == [null |-> "null"]
EmptyObject == [k \in {} |-> ""]

\* ToBoolean on the scalar values of the model (lines 48, 58, 82, 85, 121-127)
Truthy(v) == v \notin {Undefined, "", "false"}

\* a || b on scalars (lines 81, 99-101)
Or(a, b) == IF Truthy(a) THEN a ELSE b

\* obj[key], undefined when the key is absent
Prop(obj, key) == IF key \in DOMAIN obj THEN obj[key] ELSE Undefined

\* entries[key] on an ordered object
RECURSIVE Get(_, _)
Get(entries, key) ==
    IF entries = <<>> THEN Undefined
    ELSE IF Head(entries)[1] = key THEN Head(entries)[2]
    ELSE Get(Tail(entries), key)

\* The keys of a plain object ({} of line 35) that are not ordinary string
\* keys.  An assignment to __proto__ goes to the setter of Object.prototype,
\* which ignores a string: no own key is created.  Integer-like keys (array
\* indices) are enumerated first, in ascending numeric order, before the
\* string keys, which keep their insertion order; IndexKeySeq has the
\* integer-like keys of the model in ascending order.
ProtoKey == "__proto__"
IndexKeySeq == <<"2", "10">>
IsIndex(key) == \E i \in DOMAIN IndexKeySeq : IndexKeySeq[i] = key
IndexRank(key) == CHOOSE i \in DOMAIN IndexKeySeq : IndexKeySeq[i] = key

\* an integer-like key that is new goes before the entry e
GoesBefore(key, e) ==
    IsIndex(key) /\ (~IsIndex(e[1]) \/ IndexRank(e[1]) > IndexRank(key))

\* mutant: a key that is already there keeps its first value
RECURSIVE Put_KeepFirst(_, _, _)
Put_KeepFirst(entries, key, value) ==
    IF key = ProtoKey THEN entries
    ELSE IF entries = <<>> THEN <<(<<key, value>>)>>
    ELSE IF Head(entries)[1] = key THEN entries
    ELSE IF GoesBefore(key, Head(entries)) THEN <<(<<key, value>>)>> \o entries
    ELSE <<Head(entries)>> \o Put_KeepFirst(Tail(entries), key, value)

\* paramsObj[key] = value (line 37) on the entries of a plain object in
\* their enumeration order: nothing for __proto__; the value is overwritten
\* in place when the key is there; a new integer-like key is put at its
\* numeric place among the integer-like keys and a new string key at the end
RECURSIVE Put(_, _, _)
Put(entries, key, value) ==
    IF key = ProtoKey THEN entries
    ELSE IF entries = <<>> THEN <<(<<key, value>>)>>
    ELSE IF Head(entries)[1] = key THEN <<(<<key, value>>)>> \o Tail(entries)
    ELSE IF GoesBefore(key, Head(entries)) THEN <<(<<key, value>>)>> \o entries
    ELSE <<Head(entries)>> \o Put(Tail(entries), key, value)

\* the unordered object holding the entries (a later entry of a key wins)
RECURSIVE ToObject(_)
ToObject(entries) ==
    IF entries = <<>> THEN EmptyObject
    ELSE LET n == Len(entries)
         IN (entries[n][1] :> entries[n][2]) @@ ToObject(SubSeq(entries, 1, n - 1))

(**************************** the inputs ***********************************)
Reserved == {"campaign_id", "redirect_url", "api_key"}
ExtraKeySeq == <<"utm_source", "trace_id", "country", "api_key_id", "final_url", "id">>
ExtraKeys == {ExtraKeySeq[i] : i \in DOMAIN ExtraKeySeq}
ExtraVals == {"", "news letter"}

CampaignVals == {"", "c1"}
ApiKeyVals == {"", "k1"}
RedirectVals == {"", "not a url", "https://example.com", "https://example.com/x",
                 "https://example.com/x?utm_source=old&keep=1&trace_id=old"}

\* zero or one <<key, value>> pair for a reserved key
Optional(key, vals) == {<<>>} \cup {<<(<<key, v>>)>> : v \in vals}

\* extra parameters: up to MaxExtras pairs, keys in the order of ExtraKeySeq
ExtraSeqs ==
    {<<>>} \cup
    UNION {{[i \in 1..n |-> <<ExtraKeySeq[ix[i]], vs[i]>>] :
               ix \in {f \in [1..n -> DOMAIN ExtraKeySeq] :
                          \A i \in 1..n, j \in 1..n : i < j => f[i] < f[j]},
               vs \in [1..n -> ExtraVals]} : n \in 1..MaxExtras}

Locations ==
    {c \o r \o a \o e : c \in Optional("campaign_id", CampaignVals),
                        r \in Optional("redirect_url", RedirectVals),
                        a \in Optional("api_key", ApiKeyVals),
                        e \in ExtraSeqs}

\* the outcomes of fetch(...) and response.json() (lines 62-72)
BodyActive == [id |-> "key-1", isActive |-> "true", token |-> "tok-abcdefghijklmnopqrstuvwxyz"]
BodyInactive == [id |-> "key-1", isActive |-> "false", token |-> "tok-abcdefghijklmnopqrstuvwxyz"]
BodyNoToken == [id |-> "key-1", isActive |-> "true"]
Bodies == {BodyActive, BodyInactive, BodyNoToken, EmptyObject, JSNull}
NoResponse == [kind |-> "none", body |-> JSNull]
Responses ==
    {[kind |-> k, body |-> JSNull] : k \in {"network_error", "not_ok", "bad_json"}}
    \cup {[kind |-> "json", body |-> b] : b \in Bodies}

\* the message of the exception a failed fetch or json() raises at line 62
\* or 69 ("" when nothing is raised)
FailureMessage(resp) ==
    CASE resp.kind = "network_error" -> "Failed to fetch"
      [] resp.kind = "bad_json" -> "Unexpected end of JSON input"
      [] OTHER -> ""

(****************** the URL and URLSearchParams of the platform ************)
NoUrl == [ok |-> FALSE, base |-> "", query |-> <<>>]

\* new URL(s): the parse of the redirect targets of the model; anything else
\* (no scheme) makes the constructor throw
ParseURL(s) ==
    CASE s = "https://example.com" ->
            [ok |-> TRUE, base |-> "https://example.com/", query |-> <<>>]
      [] s = "https://example.com/x" ->
            [ok |-> TRUE, base |-> "https://example.com/x", query |-> <<>>]
      [] s = "https://example.com/x?utm_source=old&keep=1&trace_id=old" ->
            [ok |-> TRUE, base |-> "https://example.com/x",
             query |-> <<(<<"utm_source", "old">>), (<<"keep", "1">>),
                         (<<"trace_id", "old">>)>>]
      [] OTHER -> NoUrl

InvalidUrlMessage == "Invalid URL"

\* application/x-www-form-urlencoded byte serialisation of the model's strings
FormEncode(s) == IF s = "news letter" THEN "news+letter" ELSE s

RECURSIVE SerializeQuery(_)
SerializeQuery(q) ==
    IF q = <<>> THEN ""
    ELSE FormEncode(Head(q)[1]) \o "=" \o FormEncode(Head(q)[2])
         \o (IF Tail(q) = <<>> THEN "" ELSE "&" \o SerializeQuery(Tail(q)))

\* url.toString()
URLToString(u) ==
    u.base \o (IF u.query = <<>> THEN "" ELSE "?" \o SerializeQuery(u.query))

\* mutant: set is append, pairs of the same name are kept
SearchParamsSet_Append(q, name, value) == Append(q, <<name, value>>)

\* URLSearchParams.set(name, value): the first pair named name takes the value
\* and every later pair of that name is removed; appended when there is none
SearchParamsSet(q, name, value) ==
    LET idx == {i \in DOMAIN q : q[i][1] = name}
    IN IF idx = {} THEN Append(q, <<name, value>>)
       ELSE LET first == CHOOSE i \in idx : \A j \in idx : i <= j
            IN SubSeq(q, 1, first - 1) \o <<(<<name, value>>)>>
               \o SelectSeq(SubSeq(q, first + 1, Len(q)), LAMBDA e : e[1] # name)

\* URLSearchParams.getAll(name)
RECURSIVE GetAll(_, _)
GetAll(q, name) ==
    IF q = <<>> THEN <<>>
    ELSE (IF Head(q)[1] = name THEN <<Head(q)[2]>> ELSE <<>>) \o GetAll(Tail(q), name)

\* mutant: the generator returns the same identifier at every call
RandomUUID_Fixed(n) == "00000000-0000-4000-8000-000000000000"

\* crypto.randomUUID(): the n-th identifier drawn
RandomUUID(n) == "00000000-0000-4000-8000-00000000000" \o ToString(n)

\* new Date().toISOString() at clock value t
IsoString(t) == "2025-01-24T18:30:0" \o ToString(t) \o ".000Z"

NavigatorUserAgent == "Mozilla/5.0"
NavigatorLanguage == "en-US"

(********************** processDebugInfo, lines 44-151 *********************)
\* line 45: the rest of the destructuring
extraParams(params) == SelectSeq(params, LAMBDA e : e[1] \notin Reserved)

\* mutant: the pass is idle only for an empty ParameterMap
Idle_EmptyOnly(params) == params = <<>>

\* line 48: the pass returns at once
Idle(params) ==
    /\ ~Truthy(Get(params, "campaign_id"))
    /\ ~Truthy(Get(params, "redirect_url"))
    /\ ~Truthy(Get(params, "api_key"))

\* mutant: the validation fetch is made for an api_key that is there but empty
NeedsFetch_KeyGiven(params) == Get(params, "api_key") # Undefined

\* mutant: the validation fetch is made whether or not api_key was given
NeedsFetch_Always(params) == TRUE

\* line 58: the pass awaits the validation fetch
NeedsFetch(params) == Truthy(Get(params, "api_key"))

\* mutant: any 2xx answer makes the key valid, whatever isActive says
ValidateKey_OkIsValid(resp) ==
    IF resp.kind = "json"
    THEN [apiKeyInfo |-> resp.body, apiKeyValid |-> "true"]
    ELSE [apiKeyInfo |-> JSNull, apiKeyValid |-> "false"]

\* mutant: the catch of line 73 lets the key pass as valid
ValidateKey_FailOpen(resp) ==
    IF resp.kind = "json" /\ resp.body # JSNull
    THEN [apiKeyInfo |-> resp.body, apiKeyValid |-> Prop(resp.body, "isActive")]
    ELSE [apiKeyInfo |-> JSNull, apiKeyValid |-> "true"]

\* lines 55-76: apiKeyInfo and apiKeyValid after the inner try/catch.
\* A network error rejects fetch and a bad body rejects json(): both are
\* caught before any assignment.  A JSON null body is assigned to apiKeyInfo
\* and then data.isActive throws, which is caught too.
ValidateKey(resp) ==
    IF resp.kind = "json"
    THEN IF resp.body = JSNull
         THEN [apiKeyInfo |-> JSNull, apiKeyValid |-> "false"]
         ELSE [apiKeyInfo |-> resp.body, apiKeyValid |-> Prop(resp.body, "isActive")]
    ELSE [apiKeyInfo |-> JSNull, apiKeyValid |-> "false"]

\* mutant: the test of line 85 is missing, empty extras are set too
RECURSIVE SetExtras_SetsEmpty(_, _)
SetExtras_SetsEmpty(q, extras) ==
    IF extras = <<>> THEN q
    ELSE SetExtras_SetsEmpty(SearchParamsSet(q, Head(extras)[1], Head(extras)[2]),
                             Tail(extras))

\* mutant: the loop stops after the first extra parameter
SetExtras_FirstOnly(q, extras) ==
    IF extras = <<>> \/ ~Truthy(Head(extras)[2]) THEN q
    ELSE SearchParamsSet(q, Head(extras)[1], Head(extras)[2])

\* lines 84-88: the loop over Object.entries(extraParams)
RECURSIVE SetExtras(_, _)
SetExtras(q, extras) ==
    IF extras = <<>> THEN q
    ELSE SetExtras(IF Truthy(Head(extras)[2])
                   THEN SearchParamsSet(q, Head(extras)[1], Head(extras)[2])
                   ELSE q,
                   Tail(extras))

\* lines 89-92: trace_id, then api_key when supplied
SetTraceAndKey(q, trace_id, api_key) ==
    LET q1 == SearchParamsSet(q, "trace_id", trace_id)
    IN IF Truthy(api_key) THEN SearchParamsSet(q1, "api_key", api_key) ELSE q1

\* lines 81-94: [threw, url, final_url]; url is the URL object of line 83
\* after the sets, NoUrl when none was built
BuildFinalUrl(params, trace_id) ==
    LET redirect_url == Get(params, "redirect_url")
        parsed == ParseURL(redirect_url)
        built == [parsed EXCEPT !.query =
                     SetTraceAndKey(SetExtras(parsed.query, extraParams(params)),
                                    trace_id, Get(params, "api_key"))]
    IN IF ~Truthy(redirect_url) THEN [threw |-> FALSE, url |-> NoUrl, final_url |-> ""]
       ELSE IF ~parsed.ok THEN [threw |-> TRUE, url |-> NoUrl, final_url |-> ""]
       ELSE [threw |-> FALSE, url |-> built, final_url |-> URLToString(built)]

\* lines 104-110: the simulated-network block (the city is written in ASCII)
Placeholders ==
    ("country" :> "BR") @@ ("city" :> "Sao Paulo") @@ ("colo" :> "GRU")
    @@ ("timezone" :> "America/Sao_Paulo") @@ ("asn" :> "1234")
    @@ ("user-agent" :> NavigatorUserAgent) @@ ("accept-language" :> NavigatorLanguage)

\* mutant: the sentinel defaults "missing" are left out
FixedFields_NoDefault(params, apiKeyInfo, trace_id, created_at, final_url) ==
    [id |-> trace_id,
     created_at |-> created_at,
     campaign_id |-> Or(Get(params, "campaign_id"), ""),
     api_key_id |-> Or(IF apiKeyInfo = JSNull THEN Undefined ELSE Prop(apiKeyInfo, "id"),
                       "unknown"),
     redirect_url |-> Or(Get(params, "redirect_url"), ""),
     final_url |-> final_url]

\* mutant: the payload's redirect_url holds the final URL
FixedFields_RedirectIsFinal(params, apiKeyInfo, trace_id, created_at, final_url) ==
    [id |-> trace_id,
     created_at |-> created_at,
     campaign_id |-> Or(Get(params, "campaign_id"), "missing"),
     api_key_id |-> Or(IF apiKeyInfo = JSNull THEN Undefined ELSE Prop(apiKeyInfo, "id"),
                       "unknown"),
     redirect_url |-> Or(final_url, "missing"),
     final_url |-> final_url]

\* mutant: the payload's final_url is the redirect_url as given
FixedFields_FinalIsRedirect(params, apiKeyInfo, trace_id, created_at, final_url) ==
    [id |-> trace_id,
     created_at |-> created_at,
     campaign_id |-> Or(Get(params, "campaign_id"), "missing"),
     api_key_id |-> Or(IF apiKeyInfo = JSNull THEN Undefined ELSE Prop(apiKeyInfo, "id"),
                       "unknown"),
     redirect_url |-> Or(Get(params, "redirect_url"), "missing"),
     final_url |-> Or(Get(params, "redirect_url"), "")]

\* lines 97-102: the fixed fields
FixedFields(params, apiKeyInfo, trace_id, created_at, final_url) ==
    [id |-> trace_id,
     created_at |-> created_at,
     campaign_id |-> Or(Get(params, "campaign_id"), "missing"),
     api_key_id |-> Or(IF apiKeyInfo = JSNull THEN Undefined ELSE Prop(apiKeyInfo, "id"),
                       "unknown"),
     redirect_url |-> Or(Get(params, "redirect_url"), "missing"),
     final_url |-> final_url]

\* mutant: the extra parameters are spread after the simulated-network block
TracePayload_ExtrasWin(params, apiKeyInfo, trace_id, created_at, final_url) ==
    ToObject(extraParams(params))
    @@ Placeholders
    @@ FixedFields(params, apiKeyInfo, trace_id, created_at, final_url)

\* mutant: the extra parameters are not spread into the payload
TracePayload_NoExtras(params, apiKeyInfo, trace_id, created_at, final_url) ==
    Placeholders
    @@ FixedFields(params, apiKeyInfo, trace_id, created_at, final_url)

\* lines 96-111: in an object literal a later key overrides an earlier one
TracePayload(params, apiKeyInfo, trace_id, created_at, final_url) ==
    Placeholders
    @@ ToObject(extraParams(params))
    @@ FixedFields(params, apiKeyInfo, trace_id, created_at, final_url)

\* mutant: api_key is checked before redirect_url
ErrorOf_ApiKeyFirst(params, apiKeyValid) ==
    IF ~Truthy(Get(params, "api_key")) THEN "Missing required parameter: api_key"
    ELSE IF ~Truthy(Get(params, "redirect_url")) THEN "Missing required parameter: redirect_url"
    ELSE IF ~Truthy(Get(params, "campaign_id")) THEN "Missing required parameter: campaign_id"
    ELSE IF ~Truthy(apiKeyValid) THEN "API key is invalid or inactive"
    ELSE Undefined

\* lines 121-129: the first failing check, Undefined when none fails
ErrorOf(params, apiKeyValid) ==
    IF ~Truthy(Get(params, "redirect_url")) THEN "Missing required parameter: redirect_url"
    ELSE IF ~Truthy(Get(params, "api_key")) THEN "Missing required parameter: api_key"
    ELSE IF ~Truthy(Get(params, "campaign_id")) THEN "Missing required parameter: campaign_id"
    ELSE IF ~Truthy(apiKeyValid) THEN "API key is invalid or inactive"
    ELSE Undefined

\* lines 113-129: the full DebugInfo, error set only when a check fails
FullInfo(params, v, trace_id, created_at, timestamp, final_url) ==
    LET info == [trace_payload |-> TracePayload(params, v.apiKeyInfo, trace_id,
                                                created_at, final_url),
                 final_url |-> final_url,
                 timestamp |-> timestamp,
                 api_key_valid |-> v.apiKeyValid,
                 api_key_info |-> v.apiKeyInfo]
        error == ErrorOf(params, v.apiKeyValid)
    IN IF error = Undefined THEN info ELSE ("error" :> error) @@ info

\* mutant: the instanceof test of line 134 is inverted
DegradedInfo_UnknownError(errorMessage, timestamp) ==
    [trace_payload |-> [id |-> "", created_at |-> "", campaign_id |-> "",
                        api_key_id |-> "", redirect_url |-> "", final_url |-> ""],
     final_url |-> "",
     timestamp |-> timestamp,
     error |-> "Unknown error"]

\* lines 133-147: the DebugInfo of the catch block
DegradedInfo(errorMessage, timestamp) ==
    [trace_payload |-> [id |-> "", created_at |-> "", campaign_id |-> "",
                        api_key_id |-> "", redirect_url |-> "", final_url |-> ""],
     final_url |-> "",
     timestamp |-> timestamp,
     error |-> errorMessage]

\* mutant: the catch block reports the validation result it already has
Synthesize_KeepValidation(params, resp, trace_id, created_at, timestamp) ==
    LET v == IF NeedsFetch(params) THEN ValidateKey(resp)
             ELSE [apiKeyInfo |-> JSNull, apiKeyValid |-> "false"]
        f == BuildFinalUrl(params, trace_id)
    IN IF f.threw
       THEN DegradedInfo(InvalidUrlMessage, timestamp)
            @@ [api_key_valid |-> v.apiKeyValid, api_key_info |-> v.apiKeyInfo]
       ELSE FullInfo(params, v, trace_id, created_at, timestamp, f.final_url)

\* mutant: no inner try/catch, a failed validation call reaches line 132
Synthesize_NoInnerCatch(params, resp, trace_id, created_at, timestamp) ==
    LET v == IF NeedsFetch(params) THEN ValidateKey(resp)
             ELSE [apiKeyInfo |-> JSNull, apiKeyValid |-> "false"]
        f == BuildFinalUrl(params, trace_id)
    IN IF NeedsFetch(params) /\ FailureMessage(resp) # ""
       THEN DegradedInfo(FailureMessage(resp), timestamp)
       ELSE IF f.threw THEN DegradedInfo(InvalidUrlMessage, timestamp)
       ELSE FullInfo(params, v, trace_id, created_at, timestamp, f.final_url)

\* lines 54-147 after the fetch has settled with resp (NoResponse when no
\* fetch was made): the DebugInfo handed to setDebugInfo
Synthesize(params, resp, trace_id, created_at, timestamp) ==
    LET v == IF NeedsFetch(params) THEN ValidateKey(resp)
             ELSE [apiKeyInfo |-> JSNull, apiKeyValid |-> "false"]
        f == BuildFinalUrl(params, trace_id)
    IN IF f.threw THEN DegradedInfo(InvalidUrlMessage, timestamp)
       ELSE FullInfo(params, v, trace_id, created_at, timestamp, f.final_url)

\* mutant: only campaign_id is looked at
hasParams_CampaignOnly(sp) == Truthy(Get(sp, "campaign_id"))

(***************************** the render, lines 162-446 *******************)
\* lines 162-165
hasParams(sp) ==
    \/ Truthy(Get(sp, "campaign_id"))
    \/ Truthy(Get(sp, "redirect_url"))
    \/ Truthy(Get(sp, "api_key"))

\* line 195, line 238, line 248
ShowsInstructions(sp) == ~hasParams(sp)
ShowsLoading(loading) == loading
ShowsDebug(sp, di, loading) == ~loading /\ di # JSNull /\ hasParams(sp)

\* line 396 and line 426: api_key_info is rendered when truthy, and
\* token.substring(0, 20) throws a TypeError when the object has no token
RenderThrows(sp, di, loading) ==
    /\ ShowsDebug(sp, di, loading)
    /\ "api_key_info" \in DOMAIN di
    /\ di.api_key_info # JSNull
    /\ "token" \notin DOMAIN di.api_key_info

\* mutant: pairs with an empty value are skipped
RECURSIVE ReadEntries_SkipEmpty(_, _)
ReadEntries_SkipEmpty(paramsObj, entries) ==
    IF entries = <<>> THEN paramsObj
    ELSE ReadEntries_SkipEmpty(IF Truthy(Head(entries)[2])
                               THEN Put(paramsObj, Head(entries)[1], Head(entries)[2])
                               ELSE paramsObj,
                               Tail(entries))

(*************************** the Parameter Reader **************************)
\* lines 36-38: paramsObj[key] = value for each pair, in order
RECURSIVE ReadEntries(_, _)
ReadEntries(paramsObj, entries) ==
    IF entries = <<>> THEN paramsObj
    ELSE ReadEntries(Put(paramsObj, Head(entries)[1], Head(entries)[2]), Tail(entries))

\* lines 34-39
ReadParams(search) == ReadEntries(<<>>, search)

(******************************* the actions *******************************)
\* the state after construction (lines 27-30), for a page opened at one of
\* the query strings of locs
Start(locs) ==
    /\ location \in locs
    /\ mounted = FALSE
    /\ effectPending = FALSE
    /\ searchParams = <<>>
    /\ debugInfo = JSNull
    /\ isLoading = FALSE
    /\ copied = FALSE
    /\ timers = 0
    /\ inflight = {}
    /\ passCount = 0
    /\ uuidCount = 0
    /\ now = 0
    /\ url = NoUrl
    /\ response = NoResponse
    /\ crashed = FALSE
    /\ log = <<>>
    /\ commits = <<>>

Init == Start(Locations)

\* mutant: the new DebugInfo is merged into the one already there
setDebugInfo_Merge(old, info) == IF old = JSNull THEN info ELSE info @@ old

\* lines 131 and 135: the setter of useState replaces the state by its argument
setDebugInfo(old, info) == info

\* mutant: no finally block, the catch block leaves isLoading as it is
Commit_NoFinally(pass, params, resp, sync, sp) ==
    \E d \in 0..(MaxClock - now) :
        LET trace_id == RandomUUID(uuidCount + 1)
            info == Synthesize(params, resp, trace_id, IsoString(now), IsoString(now + d))
        IN /\ uuidCount' = uuidCount + 1
           /\ now' = now + d
           /\ url' = BuildFinalUrl(params, trace_id).url
           /\ response' = resp
           /\ commits' = Append(commits, [pass |-> pass, params |-> params, resp |-> resp,
                                          info |-> info,
                                          url |-> BuildFinalUrl(params, trace_id).url])
           /\ log' = log \o (IF sync THEN <<"setIsLoading(true)">> ELSE <<>>)
                         \o <<"setDebugInfo", "setIsLoading(false)">>
           /\ IF crashed
              THEN UNCHANGED <<debugInfo, isLoading, crashed>>
              ELSE /\ debugInfo' = setDebugInfo(debugInfo, info)
                   /\ isLoading' = (IF "api_key_valid" \in DOMAIN info
                                    THEN FALSE ELSE isLoading)
                   /\ crashed' = RenderThrows(sp, setDebugInfo(debugInfo, info), FALSE)

\* mutant: a pass whose ParameterMap is no longer the current one drops its
\* result instead of setting it
Commit_DropStale(pass, params, resp, sync, sp) ==
    \E d \in 0..(MaxClock - now) :
        LET trace_id == RandomUUID(uuidCount + 1)
            info == Synthesize(params, resp, trace_id, IsoString(now), IsoString(now + d))
        IN /\ uuidCount' = uuidCount + 1
           /\ now' = now + d
           /\ url' = BuildFinalUrl(params, trace_id).url
           /\ response' = resp
           /\ commits' = Append(commits, [pass |-> pass, params |-> params, resp |-> resp,
                                          info |-> info,
                                          url |-> BuildFinalUrl(params, trace_id).url])
           /\ log' = log \o (IF sync THEN <<"setIsLoading(true)">> ELSE <<>>)
                         \o <<"setDebugInfo", "setIsLoading(false)">>
           /\ IF crashed \/ params # sp
              THEN UNCHANGED <<debugInfo, isLoading, crashed>>
              ELSE /\ debugInfo' = setDebugInfo(debugInfo, info)
                   /\ isLoading' = FALSE
                   /\ crashed' = RenderThrows(sp, setDebugInfo(debugInfo, info), FALSE)

\* lines 78-150, run without suspension once the validation result is known:
\* one identifier and two clock readings are taken, the DebugInfo is set and
\* loading is cleared, and the component renders the new state.  sync tells
\* that the pass made no fetch, so that line 52 belongs to the same run.
\* After a crash the setters act on an unmounted component and do nothing.
Commit(pass, params, resp, sync, sp) ==
    \E d \in 0..(MaxClock - now) :
        LET trace_id == RandomUUID(uuidCount + 1)
            info == Synthesize(params, resp, trace_id, IsoString(now), IsoString(now + d))
        IN /\ uuidCount' = uuidCount + 1
           /\ now' = now + d
           /\ url' = BuildFinalUrl(params, trace_id).url
           /\ response' = resp
           /\ commits' = Append(commits, [pass |-> pass, params |-> params, resp |-> resp,
                                          info |-> info,
                                          url |-> BuildFinalUrl(params, trace_id).url])
           /\ log' = log \o (IF sync THEN <<"setIsLoading(true)">> ELSE <<>>)
                         \o <<"setDebugInfo", "setIsLoading(false)">>
           /\ IF crashed
              THEN UNCHANGED <<debugInfo, isLoading, crashed>>
              ELSE /\ debugInfo' = setDebugInfo(debugInfo, info)
                   /\ isLoading' = FALSE
                   /\ crashed' = RenderThrows(sp, setDebugInfo(debugInfo, info), FALSE)

\* mutant: the fetch is issued before line 52 sets isLoading
processDebugInfo_FetchFirst(params, sp) ==
    /\ passCount' = passCount + 1
    /\ IF Idle(params)
       THEN UNCHANGED <<debugInfo, isLoading, inflight, uuidCount, now, url, response,
                        crashed, log, commits>>
       ELSE IF NeedsFetch(params)
       THEN /\ isLoading' = (IF crashed THEN isLoading ELSE TRUE)
            /\ inflight' = inflight \cup {[id |-> passCount + 1, params |-> params,
                                            at |-> "fetch"]}
            /\ log' = log \o <<"fetch", "setIsLoading(true)">>
            /\ UNCHANGED <<debugInfo, uuidCount, now, url, response, crashed, commits>>
       ELSE /\ Commit(passCount + 1, params, NoResponse, TRUE, sp)
            /\ UNCHANGED inflight

\* mutant: line 52 is missing, the pass suspends without setting isLoading
processDebugInfo_NoLoading(params, sp) ==
    /\ passCount' = passCount + 1
    /\ IF Idle(params)
       THEN UNCHANGED <<debugInfo, isLoading, inflight, uuidCount, now, url, response,
                        crashed, log, commits>>
       ELSE IF NeedsFetch(params)
       THEN /\ inflight' = inflight \cup {[id |-> passCount + 1, params |-> params,
                                            at |-> "fetch"]}
            /\ log' = log \o <<"fetch">>
            /\ UNCHANGED <<debugInfo, isLoading, uuidCount, now, url, response, crashed,
                           commits>>
       ELSE /\ Commit(passCount + 1, params, NoResponse, TRUE, sp)
            /\ UNCHANGED inflight

\* lines 44-151 up to the first suspension, for the searchParams of the
\* render whose effect is running; sp is the searchParams of the next render
processDebugInfo(params, sp) ==
    /\ passCount' = passCount + 1
    /\ IF Idle(params)
       THEN UNCHANGED <<debugInfo, isLoading, inflight, uuidCount, now, url, response,
                        crashed, log, commits>>
       ELSE IF NeedsFetch(params)
       THEN /\ isLoading' = (IF crashed THEN isLoading ELSE TRUE)
            /\ inflight' = inflight \cup {[id |-> passCount + 1, params |-> params,
                                            at |-> "fetch"]}
            /\ log' = log \o <<"setIsLoading(true)", "fetch">>
            /\ UNCHANGED <<debugInfo, uuidCount, now, url, response, crashed, commits>>
       ELSE /\ Commit(passCount + 1, params, NoResponse, TRUE, sp)
            /\ UNCHANGED inflight

\* mutant: the first render already has the ParameterMap of the query string
\* (a lazy initial state), so the pass of the mount is not idle
Mount_InitialSnapshot ==
    /\ ~mounted
    /\ mounted' = TRUE
    /\ searchParams' = ReadParams(location)
    /\ effectPending' = TRUE
    /\ processDebugInfo(ReadParams(location), ReadParams(location))
    /\ UNCHANGED <<location, copied, timers>>

\* the mount: both effects run, in order, with the state of the first render.
\* Lines 33-40 read the query string and set searchParams; lines 43-154 run
\* processDebugInfo on the initial searchParams.
Mount ==
    /\ ~mounted
    /\ mounted' = TRUE
    /\ searchParams' = ReadParams(location)
    /\ effectPending' = TRUE
    /\ processDebugInfo(searchParams, ReadParams(location))
    /\ UNCHANGED <<location, copied, timers>>

\* the render after setSearchParams: the dependency changed (a new object),
\* so the effect of lines 43-154 runs again
EffectRun ==
    /\ mounted
    /\ effectPending
    /\ ~crashed
    /\ effectPending' = FALSE
    /\ processDebugInfo(searchParams, searchParams)
    /\ UNCHANGED <<location, mounted, searchParams, copied, timers>>

\* how the fetch of line 62 can settle, given the outcomes of the whole
\* call: rejected, resolved with a status that is not 2xx, or resolved 2xx
\* ("ok": the body is still to be read)
FetchStatuses(outcomes) ==
    ({r.kind : r \in outcomes} \cap {"network_error", "not_ok"})
    \cup (IF \E r \in outcomes : r.kind \in {"bad_json", "json"} THEN {"ok"} ELSE {})

\* line 62: the awaited fetch of a suspended pass settles.  Rejected, the
\* catch of line 73 runs; not 2xx, the test of line 68 fails: in both cases
\* the pass runs to its end.  With a 2xx status the pass calls
\* response.json() and is suspended again, at line 69, nothing set yet.
FetchResolves(outcomes) ==
    \E p \in {q \in inflight : q.at = "fetch"}, status \in FetchStatuses(outcomes) :
        IF status = "ok"
        THEN /\ inflight' = (inflight \ {p}) \cup {[p EXCEPT !.at = "json"]}
             /\ UNCHANGED <<location, mounted, effectPending, searchParams, debugInfo,
                            isLoading, copied, timers, passCount, uuidCount, now, url,
                            response, crashed, log, commits>>
        ELSE /\ inflight' = inflight \ {p}
             /\ Commit(p.id, p.params, [kind |-> status, body |-> JSNull], FALSE,
                       searchParams)
             /\ UNCHANGED <<location, mounted, effectPending, searchParams, copied,
                            timers, passCount>>

\* line 69: the awaited response.json() of a pass settles, with a body or
\* with the rejection of a body that is not JSON, and the pass runs to its end
JsonResolves(outcomes) ==
    \E p \in {q \in inflight : q.at = "json"},
       resp \in {r \in outcomes : r.kind \in {"bad_json", "json"}} :
        /\ inflight' = inflight \ {p}
        /\ Commit(p.id, p.params, resp, FALSE, searchParams)
        /\ UNCHANGED <<location, mounted, effectPending, searchParams, copied,
                       timers, passCount>>

FetchSettled == FetchResolves(Responses)

JsonSettled == JsonResolves(Responses)

\* lines 156-160, from the Copy button of line 346
copyToClipboard ==
    /\ ~crashed
    /\ ShowsDebug(searchParams, debugInfo, isLoading)
    /\ Truthy(debugInfo.final_url)
    /\ timers < MaxTimers
    /\ copied' = TRUE
    /\ timers' = timers + 1
    /\ UNCHANGED <<location, mounted, effectPending, searchParams, debugInfo,
                   isLoading, inflight, passCount, uuidCount, now, url, response,
                   crashed, log, commits>>

\* line 159: a timer armed by copyToClipboard fires
TimerFired ==
    /\ timers > 0
    /\ copied' = FALSE
    /\ timers' = timers - 1
    /\ UNCHANGED <<location, mounted, effectPending, searchParams, debugInfo,
                   isLoading, inflight, passCount, uuidCount, now, url, response,
                   crashed, log, commits>>

\* time passes; the clock is followed only while a pass may still read it
\* (lines 79, 116 and 145 are its only readers)
Tick ==
    /\ now < MaxClock
    /\ (~mounted \/ effectPending \/ inflight # {})
    /\ now' = now + 1
    /\ UNCHANGED <<location, mounted, effectPending, searchParams, debugInfo,
                   isLoading, copied, timers, inflight, passCount, uuidCount, url,
                   response, crashed, log, commits>>

Next ==
    Mount \/ EffectRun \/ FetchSettled \/ JsonSettled \/ copyToClipboard \/ TimerFired
    \/ Tick

Spec == Init /\ [][Next]_vars

(************************ the passes of a page load ************************)
\* The page load without the Copy button: copyToClipboard and its timers
\* read debugInfo.final_url and write only copied, so the passes and what
\* they commit are the same with or without them.
NextSynthesis == Mount \/ EffectRun \/ FetchSettled \/ JsonSettled \/ Tick

SpecSynthesis == Init /\ [][NextSynthesis]_vars

(************************ a page load that goes on *************************)
\* The passes of a page load when every step that can be taken is taken:
\* React runs the effects of a committed render, and the awaited fetch and
\* the awaited response.json() are taken to settle (the code sets no timeout
\* on them, so this is a premise about the transport, not something the
\* code ensures).  The clock is left
\* free.  The query strings are those without extra parameters.
LiveLocations ==
    {c \o r \o a : c \in Optional("campaign_id", CampaignVals),
                   r \in Optional("redirect_url", RedirectVals),
                   a \in Optional("api_key", ApiKeyVals)}

InitLive == Start(LiveLocations)

SpecLive ==
    /\ InitLive
    /\ [][NextSynthesis]_vars
    /\ WF_vars(Mount)
    /\ WF_vars(EffectRun)
    /\ WF_vars(FetchSettled)
    /\ WF_vars(JsonSettled)

(********************* a ParameterMap that changes again *******************)
\* The effect of lines 43-154 depends on searchParams (line 154) and has no
\* cleanup: it reacts to every call of the setter of line 27, not only to
\* the one of the mount.  This specification lets the setter be called
\* again, with a new object, to follow passes that overlap.
NavLocations ==
    {<<>>,
     <<(<<"campaign_id", "c1">>), <<"redirect_url", "not a url">>>>,
     <<(<<"redirect_url", "https://example.com/x">>), <<"api_key", "k1">>>>,
     <<(<<"campaign_id", "c1">>), <<"redirect_url", "https://example.com/x">>,
       <<"api_key", "k1">>, <<"id", "news letter">>>>}

NavResponses ==
    {[kind |-> "network_error", body |-> JSNull],
     [kind |-> "json", body |-> BodyActive]}

\* line 27: the setter is called with a new object once the effect of the
\* previous render has run
setSearchParams ==
    /\ mounted
    /\ ~crashed
    /\ ~effectPending
    /\ passCount < 2 + MaxChanges
    /\ \E l \in NavLocations : searchParams' = ReadParams(l)
    /\ effectPending' = TRUE
    /\ UNCHANGED <<location, mounted, debugInfo, isLoading, copied, timers, inflight,
                   passCount, uuidCount, now, url, response, crashed, log, commits>>

InitNav == Start(NavLocations)

NextNav ==
    Mount \/ EffectRun \/ FetchResolves(NavResponses) \/ JsonResolves(NavResponses)
    \/ setSearchParams \/ Tick

SpecNav == InitNav /\ [][NextNav]_vars

(************************ query strings with repeats ***********************)
\* URLSearchParams iterates every pair of the query string in order, also
\* the pairs whose key came before (line 36)
ReaderKeys == {"campaign_id", "utm_source", ProtoKey} \cup
              {IndexKeySeq[i] : i \in DOMAIN IndexKeySeq}
ReaderVals == {"", "a", "b"}
ReaderLocations ==
    UNION {[1..n -> {<<k, v>> : k \in ReaderKeys, v \in ReaderVals}] : n \in 0..MaxPairs}

InitReader == Start(ReaderLocations)

NextReader == Mount \/ EffectRun \/ Tick

SpecReader == InitReader /\ [][NextReader]_vars

(******************************* the claims ********************************)
\* a reserved parameter counts as present when its value passes the tests of
\* lines 48, 58, 82 and 121-125, that is, when it is a non-empty string
Present(key) == Truthy(Get(searchParams, key))
AllThreePresent == Present("campaign_id") /\ Present("redirect_url") /\ Present("api_key")
RedirectParseable == Present("redirect_url") /\ ParseURL(Get(searchParams, "redirect_url")).ok
RedirectUnparseable == Present("redirect_url") /\ ~ParseURL(Get(searchParams, "redirect_url")).ok

\* a pass has committed a DebugInfo; full is the one of lines 113-131
Committed == debugInfo # JSNull
IsFull(di) == di # JSNull /\ "api_key_valid" \in DOMAIN di
IsDegraded(di) == di # JSNull /\ "api_key_valid" \notin DOMAIN di

\* the validation call answered 2xx with a body whose isActive is true
KeyReportedActive ==
    /\ response.kind = "json"
    /\ response.body # JSNull
    /\ Prop(response.body, "isActive") = "true"

\* the query of a URL has a pair name=value
HasParam(q, name, value) == \E i \in DOMAIN q : q[i] = <<name, value>>

\* the extra parameters of the ParameterMap, as a set of pairs
Extras == {searchParams[i] : i \in {j \in DOMAIN searchParams : searchParams[j][1] \notin Reserved}}

\* the message of the first failing check, judged from the ParameterMap and
\* from how the validation call settled (Undefined when no check fails)
C1_ExpectedError ==
    IF ~Present("redirect_url") THEN "Missing required parameter: redirect_url"
    ELSE IF ~Present("api_key") THEN "Missing required parameter: api_key"
    ELSE IF ~Present("campaign_id") THEN "Missing required parameter: campaign_id"
    ELSE IF ~KeyReportedActive THEN "API key is invalid or inactive"
    ELSE Undefined

\* C1: when redirect_url is parseable if present, the error of the committed
\* DebugInfo is the message of the first failing check in the order
\* redirect_url, api_key, campaign_id, key validity, and error is absent
\* exactly when no check fails; the invalid-key message needs all three
\* reserved parameters.
C1_ErrorPrecedence ==
    (Committed /\ ~RedirectUnparseable) =>
        /\ Prop(debugInfo, "error") = C1_ExpectedError
        /\ ("error" \in DOMAIN debugInfo <=> C1_ExpectedError # Undefined)
        /\ (Prop(debugInfo, "error") = "API key is invalid or inactive" => AllThreePresent)
C1_Witness ==
    /\ Committed
    /\ Present("api_key") /\ ~Present("redirect_url") /\ ~Present("campaign_id")
    /\ response.kind = "not_ok"
    /\ debugInfo.error = "Missing required parameter: redirect_url"

\* C2 as stated: with a parseable redirect_url the query of the final URL
\* holds every non-empty extra parameter with its input value, a trace_id
\* and, when api_key was supplied, api_key with the input value.
C2_Original ==
    (Committed /\ RedirectParseable) =>
        /\ \A e \in Extras : Truthy(e[2]) => HasParam(url.query, e[1], e[2])
        /\ \E i \in DOMAIN url.query : url.query[i][1] = "trace_id"
        /\ Present("api_key") => HasParam(url.query, "api_key", Get(searchParams, "api_key"))
\* C2 amended: the same for every non-empty extra parameter not named
\* trace_id; the final URL is the serialisation of that query.
C2_FinalUrlSuperset ==
    (Committed /\ RedirectParseable) =>
        /\ debugInfo.final_url = URLToString(url)
        /\ \A e \in Extras :
              (Truthy(e[2]) /\ e[1] # "trace_id") => HasParam(url.query, e[1], e[2])
        /\ \E i \in DOMAIN url.query : url.query[i][1] = "trace_id"
        /\ Present("api_key") => HasParam(url.query, "api_key", Get(searchParams, "api_key"))
C2_Witness ==
    /\ Committed /\ RedirectParseable /\ Present("api_key")
    /\ <<"utm_source", "news letter">> \in Extras
    /\ <<"trace_id", "news letter">> \in Extras
    /\ debugInfo.final_url =
          "https://example.com/x?utm_source=news+letter&trace_id="
          \o RandomUUID(1) \o "&api_key=k1"

\* C3: when the query string has none of campaign_id, redirect_url, api_key,
\* the passes do nothing: DebugInfo stays absent, loading is never set and
\* no validation request is issued, however many passes have run.
C3_IdleDoesNothing ==
    (\A i \in DOMAIN location : location[i][1] \notin Reserved) =>
        /\ debugInfo = JSNull
        /\ ~isLoading
        /\ inflight = {}
        /\ log = <<>>
C3_Witness ==
    /\ passCount = 2
    /\ Len(searchParams) = 2
    /\ \A i \in DOMAIN searchParams : searchParams[i][1] \notin Reserved
    /\ debugInfo = JSNull

\* the validation call failed: network failure, non-2xx status or bad body
ValidationFailed == response.kind \in {"network_error", "not_ok", "bad_json"}

\* the value of the extra parameter named key (Undefined when there is none)
ExtraValue(key) == IF key \in Reserved THEN Undefined ELSE Get(searchParams, key)

\* C4 as stated: with api_key present and a 2xx answer with a parseable
\* body (one that has fields), the DebugInfo has api_key_info equal to the
\* body and api_key_valid equal to the body's isActive; with all three
\* reserved parameters, a parseable redirect_url and isActive true it is
\* valid and has no error.
C4_Original ==
    (Committed /\ Present("api_key") /\ response.kind = "json" /\ response.body # JSNull) =>
        /\ "api_key_info" \in DOMAIN debugInfo
        /\ debugInfo.api_key_info = response.body
        /\ debugInfo.api_key_valid = Prop(response.body, "isActive")
        /\ (AllThreePresent /\ RedirectParseable /\ KeyReportedActive) =>
              (debugInfo.api_key_valid = "true" /\ "error" \notin DOMAIN debugInfo)
\* C4 amended: the same when redirect_url is absent or parseable (the pass
\* commits the full DebugInfo); for a JSON null body api_key_valid is false.
C4_KeyInfoVerbatim ==
    (Committed /\ Present("api_key") /\ response.kind = "json" /\ ~RedirectUnparseable) =>
        /\ IsFull(debugInfo)
        /\ debugInfo.api_key_info = response.body
        /\ debugInfo.api_key_valid =
              (IF response.body = JSNull THEN "false" ELSE Prop(response.body, "isActive"))
        /\ (AllThreePresent /\ KeyReportedActive) =>
              (debugInfo.api_key_valid = "true" /\ "error" \notin DOMAIN debugInfo)
C4_Witness ==
    /\ Committed /\ AllThreePresent /\ RedirectParseable
    /\ response = [kind |-> "json", body |-> BodyActive]
    /\ debugInfo.api_key_info = BodyActive
    /\ debugInfo.api_key_valid = "true"
    /\ "error" \notin DOMAIN debugInfo

\* C5 as stated: with api_key present and a failed validation call the pass
\* still commits a full DebugInfo with populated payload and computed final
\* URL, api_key_valid false, api_key_info absent, an error that is not the
\* failure's message and, with all three reserved parameters, the
\* invalid-key message.
C5_Original ==
    (Committed /\ Present("api_key") /\ ValidationFailed) =>
        /\ IsFull(debugInfo)
        /\ debugInfo.api_key_valid = "false"
        /\ debugInfo.api_key_info = JSNull
        /\ DOMAIN Placeholders \subseteq DOMAIN debugInfo.trace_payload
        /\ debugInfo.final_url = (IF Present("redirect_url") THEN URLToString(url) ELSE "")
        /\ Prop(debugInfo, "error") # FailureMessage(response)
        /\ AllThreePresent => Prop(debugInfo, "error") = "API key is invalid or inactive"
\* C5 amended: the error never carries the failure's message, and the rest
\* holds when redirect_url is absent or parseable.
C5_FailureSwallowed ==
    (Committed /\ Present("api_key") /\ ValidationFailed) =>
        /\ Prop(debugInfo, "error") # FailureMessage(response)
        /\ ~RedirectUnparseable =>
              /\ IsFull(debugInfo)
              /\ debugInfo.api_key_valid = "false"
              /\ debugInfo.api_key_info = JSNull
              /\ DOMAIN Placeholders \subseteq DOMAIN debugInfo.trace_payload
              /\ debugInfo.final_url =
                    (IF Present("redirect_url") THEN URLToString(url) ELSE "")
              /\ AllThreePresent =>
                    Prop(debugInfo, "error") = "API key is invalid or inactive"
C5_Witness ==
    /\ Committed /\ AllThreePresent /\ RedirectParseable
    /\ response.kind = "network_error"
    /\ IsFull(debugInfo)
    /\ debugInfo.api_key_valid = "false"
    /\ debugInfo.error = "API key is invalid or inactive"

\* C6: with a redirect_url that does not parse, the committed DebugInfo is
\* the degraded one: the payload is exactly the six fixed fields, all empty,
\* final_url is empty and error is the non-empty message of the failure.
C6_Degraded ==
    (Committed /\ RedirectUnparseable) =>
        /\ debugInfo.trace_payload =
              [id |-> "", created_at |-> "", campaign_id |-> "", api_key_id |-> "",
               redirect_url |-> "", final_url |-> ""]
        /\ debugInfo.final_url = ""
        /\ "error" \in DOMAIN debugInfo
        /\ debugInfo.error # ""
        /\ debugInfo.error = InvalidUrlMessage
        /\ DOMAIN debugInfo = {"trace_payload", "final_url", "timestamp", "error"}
C6_Witness ==
    /\ Committed
    /\ Get(searchParams, "redirect_url") = "not a url"
    /\ Extras # {}
    /\ Present("api_key")
    /\ debugInfo.error = InvalidUrlMessage

\* C7: no exception escapes the component, whatever the ParameterMap and
\* the outcome of the validation call: no render of the state throws.
C7_NoEscape == ~crashed

\* C8 as stated: when no step throws the DebugInfo is full, the payload has
\* campaign_id "missing" and redirect_url "missing" for an absent parameter,
\* api_key_id "unknown" without ApiKeyInfo and ApiKeyInfo.id otherwise, and
\* the final URL is empty without redirect_url.
C8_Original ==
    (Committed /\ ~RedirectUnparseable) =>
        /\ IsFull(debugInfo)
        /\ ~Present("campaign_id") => debugInfo.trace_payload["campaign_id"] = "missing"
        /\ ~Present("redirect_url") =>
              (debugInfo.trace_payload["redirect_url"] = "missing" /\ debugInfo.final_url = "")
        /\ debugInfo.trace_payload["api_key_id"] =
              (IF debugInfo.api_key_info = JSNull THEN "unknown"
               ELSE Prop(debugInfo.api_key_info, "id"))
\* C8 amended: api_key_id is the value of an extra parameter named
\* api_key_id when there is one, and else "unknown" when no ApiKeyInfo was
\* obtained or it has no non-empty id, and else ApiKeyInfo.id.
C8_PartialResults ==
    (Committed /\ ~RedirectUnparseable) =>
        /\ IsFull(debugInfo)
        /\ ~Present("campaign_id") => debugInfo.trace_payload["campaign_id"] = "missing"
        /\ ~Present("redirect_url") =>
              (debugInfo.trace_payload["redirect_url"] = "missing" /\ debugInfo.final_url = "")
        /\ debugInfo.trace_payload["api_key_id"] =
              (IF ExtraValue("api_key_id") # Undefined THEN ExtraValue("api_key_id")
               ELSE IF debugInfo.api_key_info = JSNull THEN "unknown"
               ELSE IF ~Truthy(Prop(debugInfo.api_key_info, "id")) THEN "unknown"
               ELSE debugInfo.api_key_info.id)
C8_Witness ==
    /\ Committed
    /\ ~Present("campaign_id") /\ ~Present("redirect_url") /\ Present("api_key")
    /\ response = [kind |-> "json", body |-> BodyActive]
    /\ debugInfo.trace_payload["campaign_id"] = "missing"
    /\ debugInfo.trace_payload["redirect_url"] = "missing"
    /\ debugInfo.trace_payload["api_key_id"] = "key-1"
    /\ debugInfo.final_url = ""
    /\ debugInfo.error = "Missing required parameter: redirect_url"

\* C9: in every full DebugInfo each key of the simulated-network block has
\* the fixed placeholder in the payload, also when an extra parameter has
\* that name; the extra's non-empty value still goes into the final URL.
C9_PlaceholdersWin ==
    IsFull(debugInfo) =>
        /\ \A k \in DOMAIN Placeholders : debugInfo.trace_payload[k] = Placeholders[k]
        /\ \A e \in Extras :
              (e[1] \in DOMAIN Placeholders /\ Truthy(e[2]) /\ RedirectParseable) =>
                  HasParam(url.query, e[1], e[2])
C9_Witness ==
    /\ IsFull(debugInfo) /\ RedirectParseable
    /\ <<"country", "news letter">> \in Extras
    /\ debugInfo.trace_payload["country"] = "BR"
    /\ HasParam(url.query, "country", "news letter")

\* C10 as stated, for a full DebugInfo: every extra parameter is in the
\* payload under its own key with its input value and, with a parseable
\* redirect_url, in the query of the final URL with its input value, the
\* empty string included.
C10_Original ==
    IsFull(debugInfo) =>
        \A e \in Extras :
            /\ Prop(debugInfo.trace_payload, e[1]) = e[2]
            /\ RedirectParseable => HasParam(url.query, e[1], e[2])
\* C10 amended: in a full DebugInfo every extra parameter not named like a
\* key of the simulated-network block is in the payload with its input
\* value, and with a parseable redirect_url every extra parameter with a
\* non-empty value and not named trace_id is in the query of the final URL.
C10_ExtrasPropagated ==
    IsFull(debugInfo) =>
        \A e \in Extras :
            /\ e[1] \notin DOMAIN Placeholders =>
                  Prop(debugInfo.trace_payload, e[1]) = e[2]
            /\ (RedirectParseable /\ Truthy(e[2]) /\ e[1] # "trace_id") =>
                  HasParam(url.query, e[1], e[2])
C10_Witness ==
    /\ IsFull(debugInfo) /\ RedirectParseable
    /\ <<"utm_source", "news letter">> \in Extras
    /\ <<"id", "">> \in Extras
    /\ debugInfo.trace_payload["utm_source"] = "news letter"
    /\ debugInfo.trace_payload["id"] = ""
    /\ HasParam(url.query, "utm_source", "news letter")
    /\ ~\E i \in DOMAIN url.query : url.query[i][1] = "id"

(************************ claims about several passes **********************)
\* a record without some of its fields
Without(f, keys) == [k \in DOMAIN f \ keys |-> f[k]]

\* two passes ran on the same ParameterMap and got the same validation response
SameRun(a, b) == a.params = b.params /\ a.resp = b.resp

\* the query of a URL without its trace_id pairs
NoTrace(q) == SelectSeq(q, LAMBDA pair : pair[1] # "trace_id")

\* C11 as stated: two passes over the same ParameterMap with the same
\* validation response give DebugInfos that agree on every field except
\* trace_payload.id, trace_payload.created_at and timestamp, the two
\* final_url fields included.
C11_Original ==
    \A i, j \in DOMAIN commits :
        (i < j /\ SameRun(commits[i], commits[j])) =>
            /\ Without(commits[i].info, {"timestamp", "trace_payload"})
                 = Without(commits[j].info, {"timestamp", "trace_payload"})
            /\ Without(commits[i].info.trace_payload, {"id", "created_at"})
                 = Without(commits[j].info.trace_payload, {"id", "created_at"})

\* C11, amended: two passes over the same ParameterMap with the same
\* validation response give DebugInfos with the same fields that agree on
\* all of them except trace_payload.id, trace_payload.created_at, timestamp
\* and the two final_url fields; the final URLs are built on the same base
\* and carry the same query apart from trace_id, and they are equal (empty)
\* when no URL is built.
C11_ShapeIdempotent ==
    \A i, j \in DOMAIN commits :
        (i < j /\ SameRun(commits[i], commits[j])) =>
            /\ Without(commits[i].info, {"timestamp", "trace_payload", "final_url"})
                 = Without(commits[j].info, {"timestamp", "trace_payload", "final_url"})
            /\ DOMAIN commits[i].info = DOMAIN commits[j].info
            /\ Without(commits[i].info.trace_payload, {"id", "created_at", "final_url"})
                 = Without(commits[j].info.trace_payload, {"id", "created_at", "final_url"})
            /\ DOMAIN commits[i].info.trace_payload = DOMAIN commits[j].info.trace_payload
            /\ commits[i].url.ok = commits[j].url.ok
            /\ commits[i].url.base = commits[j].url.base
            /\ NoTrace(commits[i].url.query) = NoTrace(commits[j].url.query)
            /\ ~commits[i].url.ok =>
                   /\ commits[i].info.final_url = commits[j].info.final_url
                   /\ commits[i].info.trace_payload.final_url
                        = commits[j].info.trace_payload.final_url

\* two passes on the same input built a final URL each, and the URLs differ
C11_Witness ==
    \E i, j \in DOMAIN commits :
        /\ i < j
        /\ SameRun(commits[i], commits[j])
        /\ commits[i].url.ok
        /\ commits[i].resp.kind = "json"
        /\ commits[i].info.final_url # commits[j].info.final_url
        /\ commits[i].info.trace_payload.id # commits[j].info.trace_payload.id

\* the payload a pass committed
PayloadOf(c) == c.info.trace_payload

\* C12 as stated: the payloads of two distinct passes have different ids
C12_Original ==
    \A i, j \in DOMAIN commits : i < j => PayloadOf(commits[i]).id # PayloadOf(commits[j]).id

\* C12, amended: two distinct passes that both commit a full DebugInfo, over
\* ParameterMaps without an extra parameter named id, give payloads with
\* different ids, each the identifier its pass generated and wrote into its
\* final URL as trace_id.
C12_UniqueIds ==
    \A i, j \in DOMAIN commits :
        (/\ i < j
         /\ IsFull(commits[i].info) /\ IsFull(commits[j].info)
         /\ Get(commits[i].params, "id") = Undefined
         /\ Get(commits[j].params, "id") = Undefined) =>
            /\ PayloadOf(commits[i]).id # PayloadOf(commits[j]).id
            /\ commits[i].url.ok => HasParam(commits[i].url.query, "trace_id",
                                             PayloadOf(commits[i]).id)
            /\ commits[j].url.ok => HasParam(commits[j].url.query, "trace_id",
                                             PayloadOf(commits[j]).id)

\* two passes over ParameterMaps without an id extra committed full DebugInfos
C12_Witness ==
    \E i, j \in DOMAIN commits :
        /\ i < j
        /\ IsFull(commits[i].info) /\ IsFull(commits[j].info)
        /\ Get(commits[i].params, "id") = Undefined
        /\ Get(commits[j].params, "id") = Undefined
        /\ commits[i].url.ok /\ commits[j].url.ok
        /\ commits[i].pass # commits[j].pass

(************************ claims about the page load ***********************)
\* how many times a call was logged
Count(calls, name) == Cardinality({i \in DOMAIN calls : calls[i] = name})

\* C13: in every reachable state at most one of the usage instructions, the
\* loading indicator and the populated debug view is displayed.
C13_ExclusiveViews ==
    LET instructions == ShowsInstructions(searchParams)
        loading == ShowsLoading(isLoading)
        debug == ShowsDebug(searchParams, debugInfo, isLoading)
    IN /\ ~(instructions /\ loading)
       /\ ~(instructions /\ debug)
       /\ ~(loading /\ debug)

\* the loading indicator is displayed for a page opened with an api_key only
C13_Witness ==
    /\ ShowsLoading(isLoading)
    /\ inflight # {}
    /\ Present("api_key")
    /\ ~Present("campaign_id")
    /\ ~Present("redirect_url")

\* C14: while a validation call is outstanding the loading flag is true and
\* the populated debug view is not displayed; a pass is suspended only
\* within its validation call, at the fetch or at the reading of the
\* answer's body, so that with no call outstanding every pass that set the
\* loading flag has also cleared it.
C14_LoadingWhileOutstanding ==
    /\ inflight # {} =>
          /\ isLoading
          /\ ShowsLoading(isLoading)
          /\ ~ShowsDebug(searchParams, debugInfo, isLoading)
          /\ \A p \in inflight :
                Truthy(Get(p.params, "api_key")) /\ p.at \in {"fetch", "json"}
          /\ debugInfo = JSNull
          /\ uuidCount = 0
    /\ inflight = {} =>
          Count(log, "setIsLoading(true)") = Count(log, "setIsLoading(false)")

\* the fetch of a page that has all three parameters has resolved and the
\* body of the answer is being read
C14_Witness ==
    /\ \E p \in inflight : p.at = "json"
    /\ isLoading
    /\ AllThreePresent
    /\ Count(log, "fetch") = 1

\* C15: a pass makes one validation request when api_key is present and
\* none when it is absent, whatever the other parameters and the outcome
\* of the request; a failed request is not made again.
C15_OneRequestPerPass ==
    Count(log, "fetch") =
        (IF mounted /\ ~effectPending /\ Present("api_key") THEN 1 ELSE 0)

\* the single request of a pass failed and the pass has committed
C15_Witness ==
    /\ Committed
    /\ response.kind = "network_error"
    /\ Count(log, "fetch") = 1
    /\ ~Present("campaign_id")

(************************ claims about the reader **************************)
\* the keys of a sequence of pairs, and the value of the last pair of a key
KeysOf(pairs) == {pairs[i][1] : i \in DOMAIN pairs}
LastValue(pairs, key) ==
    pairs[CHOOSE i \in DOMAIN pairs :
             /\ pairs[i][1] = key
             /\ \A j \in DOMAIN pairs : pairs[j][1] = key => j <= i][2]

\* C16: the reader maps a sequence of pairs to a ParameterMap that has
\* exactly the keys of the sequence, each once, and gives every key the
\* value of its last pair, empty or not, unchanged.
C16_LastWins ==
    mounted =>
        /\ KeysOf(searchParams) = KeysOf(location)
        /\ Len(searchParams) = Cardinality(KeysOf(location))
        /\ \A key \in KeysOf(location) :
               Get(searchParams, key) = LastValue(location, key)

\* what does hold of the reader, C16 apart from the key __proto__: the
\* ParameterMap has the other keys of the sequence, each once, with the
\* value of the key's last pair, and its integer-like keys come first
OtherKeys(pairs) == KeysOf(pairs) \ {ProtoKey}

ReaderLastWinsOtherKeys ==
    mounted =>
        /\ KeysOf(searchParams) = OtherKeys(location)
        /\ Len(searchParams) = Cardinality(OtherKeys(location))
        /\ \A key \in OtherKeys(location) :
               Get(searchParams, key) = LastValue(location, key)
        /\ \A i, j \in DOMAIN searchParams :
               (i < j /\ IsIndex(searchParams[j][1])) =>
                   /\ IsIndex(searchParams[i][1])
                   /\ IndexRank(searchParams[i][1]) < IndexRank(searchParams[j][1])

(*********************** claims about overlapping passes *******************)
\* C17: nothing cancels a pass when the ParameterMap changes during its
\* validation call: every pass that started is either still awaiting its
\* call or has committed, and the DebugInfo on display is the one of the
\* pass that committed last, whichever ParameterMap it was started for.
C17_LastCommitWins ==
    /\ Count(log, "setIsLoading(true)") = Len(commits) + Cardinality(inflight)
    /\ \A p \in inflight : \A i \in DOMAIN commits : commits[i].pass # p.id
    /\ (commits # <<>> /\ ~crashed) => debugInfo = commits[Len(commits)].info

\* two passes overlapped, the one for the older ParameterMap committed last
\* and its DebugInfo is the one on display
C17_Witness ==
    /\ inflight = {}
    /\ Len(commits) >= 2
    /\ LET last == commits[Len(commits)]
           prev == commits[Len(commits) - 1]
       IN /\ last.pass < prev.pass
          /\ last.resp.kind # "none" /\ prev.resp.kind # "none"
          /\ prev.params = searchParams
          /\ last.params # searchParams
          /\ debugInfo = last.info
          /\ debugInfo # prev.info

(************************ claims about state changes ***********************)
\* C18: the reader runs once, at the mount: it assigns the ParameterMap
\* from the query string (whose keys are distinct here, so the map has the
\* pairs of the query string), and no later step, be it the start of a
\* pass, the end of the validation call, a commit, a change of the
\* loading flag or a copy action, assigns it again.
C18_ReadOnce ==
    [][/\ (~mounted /\ mounted') => searchParams' = location
       /\ ~mounted' => searchParams' = <<>>
       /\ mounted => (mounted' /\ searchParams' = searchParams)]_vars

\* after the mount a validation call has ended, a DebugInfo was committed
\* and the final URL was copied, and the ParameterMap is the query string's
C18_Witness ==
    /\ mounted
    /\ response.kind = "json"
    /\ Committed
    /\ copied
    /\ Len(searchParams) >= 3
    /\ Get(searchParams, "utm_source") = ""
    /\ searchParams = location

\* C19: every pass that is not idle sets one DebugInfo, full or degraded,
\* and an idle pass sets none; a DebugInfo on display changes only by the
\* commit of a pass, which replaces it as a whole by that pass's result.
C19_Wholesale ==
    /\ [](/\ Count(log, "setDebugInfo") = Len(commits)
          /\ \A i \in DOMAIN commits :
                /\ ~Idle(commits[i].params)
                /\ IsFull(commits[i].info) # IsDegraded(commits[i].info)
                /\ \A j \in DOMAIN commits : i # j => commits[i].pass # commits[j].pass
          /\ Len(commits) + Cardinality(inflight) <= passCount)
    /\ [][/\ Len(commits') \in {Len(commits), Len(commits) + 1}
          /\ SubSeq(commits', 1, Len(commits)) = commits
          /\ debugInfo' # debugInfo =>
                /\ Len(commits') = Len(commits) + 1
                /\ debugInfo' = commits'[Len(commits')].info
          /\ (Len(commits') = Len(commits) + 1 /\ ~crashed) =>
                debugInfo' = commits'[Len(commits')].info]_vars

\* a degraded DebugInfo on display was superseded by the full one of a later pass
C19_Witness ==
    /\ Len(commits) = 2
    /\ IsDegraded(commits[1].info)
    /\ IsFull(commits[2].info)
    /\ commits[1].pass < commits[2].pass
    /\ debugInfo = commits[2].info
    /\ "error" \notin DOMAIN debugInfo

(************************ claims about the copy action *********************)
\* C20: a copy action sets copied and arms a timer of its own, and copied
\* stays true until that timer fires, also when other copy actions happen
\* meanwhile.  The timers all wait the same 2000 ms and fire in the order
\* they were armed, so the timer of the latest copy action is the last to
\* fire: copied is true as long as a timer is pending, and false once the
\* last one has fired.
C20_AckUntilOwnTimer == copied <=> timers > 0

(************************ claims about one page load ***********************)
\* C21: within a page load the effect runs twice, first on the initial
\* empty ParameterMap, which is an idle pass, and then on the ParameterMap
\* read at the mount; so at most one pass is not idle, at most one
\* validation call is ever outstanding, and no pass commits after another.
C21_OnePassInFlight ==
    /\ passCount <= 2
    /\ Cardinality(inflight) <= 1
    /\ Count(log, "setIsLoading(true)") <= 1
    /\ Len(commits) <= 1
    /\ (mounted /\ effectPending) => (passCount = 1 /\ log = <<>> /\ inflight = {})
    /\ \A p \in inflight : p.id = 2 /\ p.params = searchParams
    /\ \A i \in DOMAIN commits : commits[i].pass = 2 /\ commits[i].params = searchParams

\* the second pass of the page load is awaiting its validation call
C21_Witness ==
    /\ passCount = 2
    /\ Cardinality(inflight) = 1
    /\ isLoading
    /\ AllThreePresent

(************************ claims about the final URL ***********************)
\* the commit of the page load's pass built a full DebugInfo with a final URL
FullWithUrl(c) == IsFull(c.info) /\ c.url.ok

\* C22 as stated: the final URL of a full DebugInfo has exactly one
\* trace_id parameter, and its value is trace_payload.id.
C22_Original ==
    \A i \in DOMAIN commits :
        FullWithUrl(commits[i]) =>
            GetAll(commits[i].url.query, "trace_id") = <<PayloadOf(commits[i]).id>>

\* C22, amended: the final URL of a full DebugInfo has exactly one trace_id
\* parameter, whose value is the identifier the pass generated, whatever
\* trace_id the redirect_url or the extras carried; trace_payload.id is
\* that identifier when no extra parameter is named id, and the value of
\* the extra parameter named id otherwise.
C22_SingleTraceId ==
    \A i \in DOMAIN commits :
        FullWithUrl(commits[i]) =>
            /\ commits[i].info.final_url = URLToString(commits[i].url)
            /\ GetAll(commits[i].url.query, "trace_id") = <<RandomUUID(uuidCount)>>
            /\ PayloadOf(commits[i]).id =
                  (IF Get(commits[i].params, "id") = Undefined
                   THEN RandomUUID(uuidCount)
                   ELSE Get(commits[i].params, "id"))

\* the redirect_url carried a trace_id and so did the extras, and the final
\* URL has the generated one only
C22_Witness ==
    \E i \in DOMAIN commits :
        /\ FullWithUrl(commits[i])
        /\ Get(commits[i].params, "redirect_url") = "https://example.com/x?utm_source=old&keep=1&trace_id=old"
        /\ Get(commits[i].params, "trace_id") = "news letter"
        /\ Get(commits[i].params, "id") = Undefined
        /\ GetAll(commits[i].url.query, "trace_id") = <<PayloadOf(commits[i]).id>>

\* C23 as stated: in every committed DebugInfo the payload's final_url is
\* the DebugInfo's final_url.
C23_Original ==
    \A i \in DOMAIN commits :
        PayloadOf(commits[i]).final_url = commits[i].info.final_url

\* C23, amended: in every committed DebugInfo the payload's final_url is
\* the DebugInfo's final_url, except in a full DebugInfo for a ParameterMap
\* with an extra parameter named final_url, where it is that parameter's value.
C23_FinalUrlAgrees ==
    \A i \in DOMAIN commits :
        PayloadOf(commits[i]).final_url =
            (IF IsFull(commits[i].info) /\ Get(commits[i].params, "final_url") # Undefined
             THEN Get(commits[i].params, "final_url")
             ELSE commits[i].info.final_url)

\* a full DebugInfo with a final URL built from the redirect_url and the
\* extras, none of them named final_url
C23_Witness ==
    \E i \in DOMAIN commits :
        /\ FullWithUrl(commits[i])
        /\ Get(commits[i].params, "final_url") = Undefined
        /\ Get(commits[i].params, "utm_source") = "news letter"
        /\ PayloadOf(commits[i]).final_url = commits[i].info.final_url
        /\ commits[i].info.final_url # Get(commits[i].params, "redirect_url")

(************************ claims about the key's validity ******************)
\* C24: a committed DebugInfo says api_key_valid = true only when api_key
\* was present, the validation call of the pass answered 2xx, and
\* api_key_info is the answer's body with isActive = true; when api_key is
\* absent no call is made and a full DebugInfo has api_key_valid = false
\* and no api_key_info.
C24_ValidMeansValidated ==
    \A i \in DOMAIN commits :
        IsFull(commits[i].info) =>
            /\ commits[i].info.api_key_valid = "true" =>
                  /\ Truthy(Get(commits[i].params, "api_key"))
                  /\ commits[i].resp.kind = "json"
                  /\ commits[i].info.api_key_info # JSNull
                  /\ commits[i].info.api_key_info = commits[i].resp.body
                  /\ Prop(commits[i].info.api_key_info, "isActive") = "true"
            /\ ~Truthy(Get(commits[i].params, "api_key")) =>
                  /\ commits[i].resp.kind = "none"
                  /\ commits[i].info.api_key_valid = "false"
                  /\ commits[i].info.api_key_info = JSNull

\* a full DebugInfo with api_key_valid = true
C24_Witness ==
    \E i \in DOMAIN commits :
        /\ IsFull(commits[i].info)
        /\ commits[i].info.api_key_valid = "true"
        /\ commits[i].info.api_key_info = BodyActive
        /\ "error" \notin DOMAIN commits[i].info

(************************ claims about the loading flag ********************)
\* C25: within a pass the loading flag is set before the validation
\* request is issued, and the DebugInfo is set before the loading flag is
\* cleared, whether the DebugInfo is full or degraded; so once the pass
\* has cleared the flag the DebugInfo on display is the one it produced.
C25_Ordering ==
    /\ \A k \in DOMAIN log :
          /\ log[k] = "fetch" => (k > 1 /\ log[k - 1] = "setIsLoading(true)")
          /\ log[k] = "setIsLoading(false)" => (k > 1 /\ log[k - 1] = "setDebugInfo")
          /\ log[k] = "setDebugInfo" =>
                \E h \in 1..(k - 1) : log[h] = "setIsLoading(true)"
    /\ (Count(log, "setIsLoading(false)") = 1 /\ ~crashed) =>
          /\ ~isLoading
          /\ debugInfo = commits[1].info
          /\ ShowsDebug(searchParams, debugInfo, isLoading)

\* a pass made its request, ended in the degraded DebugInfo and cleared loading
C25_Witness ==
    /\ log = <<"setIsLoading(true)", "fetch", "setDebugInfo", "setIsLoading(false)">>
    /\ IsDegraded(debugInfo)
    /\ ~isLoading
    /\ response.kind = "json"

\* C26: a pass that has set the loading flag clears it in the end, whether
\* the validation call succeeds or fails and whether or not redirect_url
\* parses, given that the call settles; and for as long as the call has
\* not settled the flag stays true and no DebugInfo is committed.
C26_LoadingEnds ==
    /\ isLoading ~> ~isLoading
    /\ [](inflight # {} => (isLoading /\ debugInfo = JSNull /\ commits = <<>>))
    /\ [][(isLoading /\ inflight' = inflight) => (isLoading' /\ debugInfo' = JSNull)]_vars

\* the validation call was made for a malformed redirect_url and has
\* settled, and the pass has cleared the loading flag
C26_Witness ==
    /\ ~isLoading
    /\ Count(log, "fetch") = 1
    /\ Count(log, "setIsLoading(false)") = 1
    /\ RedirectUnparseable
    /\ IsDegraded(debugInfo)

(************************ claims about empty values ************************)
\* a reserved parameter of the ParameterMap has a value that is not empty
NonEmpty(key) == Get(searchParams, key) \notin {Undefined, ""}

\* the ParameterMap without its reserved parameters of empty value
WithoutEmptyReserved(params) ==
    SelectSeq(params, LAMBDA e : ~(e[1] \in Reserved /\ e[2] = ""))

\* C27: a reserved parameter with an empty value counts as absent: the
\* pass does work exactly when one of the three has a non-empty value, it
\* makes its request exactly when api_key is non-empty, and what it
\* commits is what it would commit for the ParameterMap without the empty
\* reserved parameters, with the same "missing" defaults and the same error.
C27_EmptyIsAbsent ==
    (mounted /\ ~effectPending) =>
        /\ log # <<>> <=> \E key \in Reserved : NonEmpty(key)
        /\ Count(log, "fetch") = 1 <=> NonEmpty("api_key")
        /\ hasParams(searchParams) = hasParams(WithoutEmptyReserved(searchParams))
        /\ \A i \in DOMAIN commits :
              LET info == commits[i].info
                  created_at == IF IsFull(info) THEN info.trace_payload.created_at ELSE ""
              IN /\ info = Synthesize(WithoutEmptyReserved(searchParams), commits[i].resp,
                                      RandomUUID(uuidCount), created_at, info.timestamp)
                 /\ (IsFull(info) /\ ~NonEmpty("campaign_id")) =>
                        info.trace_payload.campaign_id = "missing"
                 /\ (IsFull(info) /\ ~NonEmpty("redirect_url")) =>
                        /\ info.trace_payload.redirect_url = "missing"
                        /\ info.error = "Missing required parameter: redirect_url"
                        /\ info.final_url = ""
                 /\ (IsFull(info) /\ NonEmpty("redirect_url") /\ ~NonEmpty("api_key")) =>
                        info.error = "Missing required parameter: api_key"

\* api_key and redirect_url are there but empty: no request was made and
\* the DebugInfo has the default and the error of a missing redirect_url
C27_Witness ==
    /\ Get(searchParams, "api_key") = ""
    /\ Get(searchParams, "redirect_url") = ""
    /\ Get(searchParams, "campaign_id") = "c1"
    /\ Committed
    /\ Count(log, "fetch") = 0
    /\ debugInfo.trace_payload.redirect_url = "missing"
    /\ debugInfo.error = "Missing required parameter: redirect_url"

(************************ claims about the degraded result *****************)
\* C28: a pass whose redirect_url does not parse ends in the degraded
\* DebugInfo also when its validation call has completed before: the
\* request was issued, but the DebugInfo has only trace_payload,
\* final_url, timestamp and error, so neither api_key_valid nor
\* api_key_info, whatever the call returned, and its payload has an empty
\* api_key_id.
C28_ValidationDropped ==
    \A i \in DOMAIN commits :
        LET redirect_url == Get(commits[i].params, "redirect_url")
        IN (/\ Truthy(redirect_url)
            /\ ~ParseURL(redirect_url).ok
            /\ commits[i].resp.kind # "none") =>
               /\ Count(log, "fetch") >= 1
               /\ DOMAIN commits[i].info = {"trace_payload", "final_url", "timestamp", "error"}
               /\ commits[i].info.error = InvalidUrlMessage
               /\ commits[i].info.trace_payload.api_key_id = ""
               /\ DOMAIN commits[i].info.trace_payload =
                     {"id", "created_at", "campaign_id", "api_key_id", "redirect_url",
                      "final_url"}

\* the call answered 2xx with isActive = true and the pass ended degraded
C28_Witness ==
    \E i \in DOMAIN commits :
        /\ commits[i].resp = [kind |-> "json", body |-> BodyActive]
        /\ Get(commits[i].params, "redirect_url") = "not a url"
        /\ "api_key_valid" \notin DOMAIN commits[i].info
        /\ "api_key_info" \notin DOMAIN commits[i].info
        /\ debugInfo = commits[i].info
        /\ Count(log, "fetch") = 1

(************************ claims about what is kept ************************)
\* the names synthesis sets on the URL for a ParameterMap
NamesSet(params) ==
    {extraParams(params)[i][1] :
        i \in {j \in DOMAIN extraParams(params) : extraParams(params)[j][2] # ""}}
    \cup {"trace_id"}
    \cup (IF Get(params, "api_key") \notin {Undefined, ""} THEN {"api_key"} ELSE {})

\* the pairs of a query whose names are not in names, in order
Others(q, names) == SelectSeq(q, LAMBDA e : e[1] \notin names)

\* C29: the final URL has the scheme, host and path of the parsed
\* redirect_url, and the query parameters of redirect_url whose names are
\* not a non-empty extra parameter, trace_id or api_key are all there with
\* their values, in their order; the named parameters are there once each.
C29_Frame ==
    \A i \in DOMAIN commits :
        commits[i].url.ok =>
            LET parsed == ParseURL(Get(commits[i].params, "redirect_url"))
                names == NamesSet(commits[i].params)
            IN /\ parsed.ok
               /\ commits[i].url.base = parsed.base
               /\ Others(commits[i].url.query, names) = Others(parsed.query, names)
               /\ \A name \in names : Len(GetAll(commits[i].url.query, name)) = 1
               /\ Len(commits[i].url.query)
                    = Len(Others(parsed.query, names)) + Cardinality(names)

\* the redirect_url had utm_source, keep and trace_id; the extra utm_source
\* was empty, so only trace_id was overwritten
C29_Witness ==
    \E i \in DOMAIN commits :
        /\ commits[i].url.ok
        /\ Get(commits[i].params, "utm_source") = ""
        /\ Get(commits[i].params, "api_key") = "k1"
        /\ commits[i].url.query =
              <<(<<"utm_source", "old">>), <<"keep", "1">>,
                <<"trace_id", RandomUUID(uuidCount)>>, <<"api_key", "k1">>>>
====
